---- MODULE Spec2Model ----
(***************************************************************************)
(* BouwBuddy AI (src/bot.py): the /update field-collection conversation,   *)
(* the in-memory record store db["updates"], and the daily/weekly report   *)
(* commands.                                                               *)
(*                                                                         *)
(* Dispatch is the telegram.ext Application / ConversationHandler built    *)
(* in main(): updates are processed one at a time, the conversation is     *)
(* keyed by (chat, user) (per_chat and per_user default to True,           *)
(* allow_reentry to False), context.user_data is keyed by the user alone,  *)
(* and a handler that raises leaves the conversation state where it was.   *)
(*                                                                         *)
(* Python dicts are objects: db["updates"] holds references, so the model  *)
(* keeps a heap of dicts and the store is a sequence of object ids.        *)
(***************************************************************************)
EXTENDS Integers, Sequences, FiniteSets, TLC

\* ------------------------------------------------------------------ bounds
MaxStore == 2       \* appends explored (the list itself is unbounded)
MaxSessions == 2    \* conversations started with /update that are explored

Users == {"u1", "u2"}
\* (chat, user) pairs that exchange messages: u1 writes in both chats, u2 in c2
Keys == {<<"c1", "u1">>, <<"c2", "u1">>, <<"c2", "u2">>}
\* the one conversation of the single-conversation specification
OneKey == {<<"c1", "u1">>}
\* the conversations of the two users who write in chat c2
TwoUsers == {<<"c2", "u1">>, <<"c2", "u2">>}

\* ------------------------------------------------------ conversation states
NAME == 0
FUNCTION == 1
COMPANY == 2
LOCATION == 3
HOURS_WORKED == 4
UPDATE_TEXT == 5
PLANNING == 6
PHOTO == 7
END == -1

TextFields == {"name", "function", "company", "location", "update_text", "planning"}
AllFields == TextFields \cup {"hours_worked", "photo_id", "date"}

\* ------------------------------------------------------------------- texts
\* A message text is a sequence of characters.
Jan == <<"J", "a", "n">>
Piet == <<"P", "i", "e", "t">>
Electrician == <<"E", "l">>
Acme == <<"A", "c", "m", "e">>
WestWing == <<"W", "e", "s", "t">>
Wiring == <<"W", "i", "r", "i", "n", "g">>
Blocked == <<"B", "l", "o", "c", "k", "e", "d">>
Abc == <<"a", "b", "c">>
SevenCommaFive == <<"7", ",", "5">>
MinusThree == <<"-", "3">>
Empty == << >>

\* what user u types when the conversation is in state st (any text is
\* accepted by every text state; these are the ones explored)
TextsFor(u, st) ==
    CASE st = NAME -> {IF u = "u1" THEN Jan ELSE Piet}
      [] st = FUNCTION -> {Electrician}
      [] st = COMPANY -> {Acme}
      [] st = LOCATION -> {WestWing}
      [] st = HOURS_WORKED -> {Abc, SevenCommaFive, MinusThree}
      [] st = UPDATE_TEXT -> {Wiring}
      [] st = PLANNING -> {Blocked}
      [] OTHER -> {Jan}

Photos == {"p1", "p2"}

\* --------------------------------------------------------- str.replace/float
\* a replace that leaves the decimal comma in place
KeepComma(s) == s

\* text.replace(',', '.')
ReplaceComma(s) == [i \in 1..Len(s) |-> IF s[i] = "," THEN "." ELSE s[i]]

Digits == {"0", "1", "2", "3", "4", "5", "6", "7", "8", "9"}
DigitVal(ch) ==
    CASE ch = "0" -> 0 [] ch = "1" -> 1 [] ch = "2" -> 2 [] ch = "3" -> 3
      [] ch = "4" -> 4 [] ch = "5" -> 5 [] ch = "6" -> 6 [] ch = "7" -> 7
      [] ch = "8" -> 8 [] ch = "9" -> 9

RECURSIVE DigitsValue(_)
DigitsValue(s) ==
    IF Len(s) = 0 THEN 0
    ELSE DigitsValue(SubSeq(s, 1, Len(s) - 1)) * 10 + DigitVal(s[Len(s)])

RECURSIVE Pow10(_)
Pow10(n) == IF n = 0 THEN 1 ELSE 10 * Pow10(n - 1)

\* float(s) for s over digits, sign, '.' and letters: [ok, num, den] with
\* value num/den, or ok = FALSE for ValueError.  (Exponents, underscores,
\* inf and nan are outside the explored alphabet.)
ParseFloat(s) ==
    LET signed == Len(s) > 0 /\ s[1] \in {"-", "+"}
        body == IF signed THEN SubSeq(s, 2, Len(s)) ELSE s
        dots == {i \in 1..Len(body) : body[i] = "."}
        dot == IF dots = {} THEN Len(body) + 1 ELSE CHOOSE i \in dots : \A j \in dots : i <= j
        ipart == SubSeq(body, 1, dot - 1)
        fpart == SubSeq(body, dot + 1, Len(body))
        wellformed ==
            /\ Cardinality(dots) <= 1
            /\ \A i \in 1..Len(ipart) : ipart[i] \in Digits
            /\ \A i \in 1..Len(fpart) : fpart[i] \in Digits
            /\ Len(ipart) + Len(fpart) > 0
        mag == DigitsValue(ipart) * Pow10(Len(fpart)) + DigitsValue(fpart)
    IN IF wellformed
       THEN [ok |-> TRUE,
             num |-> IF signed /\ s[1] = "-" THEN 0 - mag ELSE mag,
             den |-> Pow10(Len(fpart))]
       ELSE [ok |-> FALSE, num |-> 0, den |-> 1]


\* ------------------------------------------------------------------- time
\* datetime values are minutes since a local midnight
MinutesPerDay == 24 * 60
Noon == 12 * 60
\* the instants at which turns happen: noon of day 0, of day 1 and of day 8
Instants == {Noon, MinutesPerDay + Noon, 8 * MinutesPerDay + Noon}

\* datetime.isoformat(): the calendar fields, <<day, hour, minute>>
IsoFormat(t) == <<t \div MinutesPerDay, (t % MinutesPerDay) \div 60, t % 60>>
\* datetime.fromisoformat()
FromIsoFormat(s) == s[1] * MinutesPerDay + s[2] * 60 + s[3]
\* datetime.date()
DateOf(t) == t \div MinutesPerDay

\* ------------------------------------------------------------------ dicts
EmptyDict == [f \in {} |-> Empty]
\* d[k] = v
DictSet(d, k, v) == [f \in (DOMAIN d) \cup {k} |-> IF f = k THEN v ELSE d[f]]

\* Every dict alive is referenced by db["updates"] or by one user's
\* user_data["update_data"].
NumObjs == MaxStore + Cardinality(Users)
ObjIds == 1..NumObjs
NoObj == 0

VARIABLES
    conv,       \* ConversationHandler's state per (chat, user); END: none
    user_data,  \* per user: the object user_data["update_data"], or NoObj
    heap,       \* object id -> dict
    db,         \* db["updates"]: sequence of object ids
    now,        \* datetime.now()
    last,       \* the turn just processed: update, handler, outcome, outputs
    sid,        \* history: per (chat, user), the number of its current session
    nsess,      \* history: sessions started so far
    by,         \* history: for each append to db, the session that made it
    hist        \* history: per user, the inputs since /update while every
                \* turn of the user was one input of that session, taken
                \* by its handler without an exception (or an hours text
                \* answered by the re-prompt, which is not recorded)

vars == <<conv, user_data, heap, db, now, last, sid, nsess, by, hist>>

\* the store's contents: the dicts db["updates"] refers to
Records == [i \in 1..Len(db) |-> heap[db[i]]]

Referenced(ud, store) == {ud[u] : u \in Users} \cup {store[i] : i \in 1..Len(store)}
\* a fresh dict object for user u, whose own reference is about to be replaced
InUseBesides(u) ==
    {user_data[v] : v \in Users \ {u}} \cup {db[i] : i \in 1..Len(db)}
\* one dict for every user
SameObj(u) == 1

NewObj(u) == CHOOSE o \in ObjIds :
    /\ o \notin InUseBesides(u)
    /\ \A p \in ObjIds : p \notin InUseBesides(u) => o <= p
\* objects nothing refers to any more are dropped
Collect(h, ud, store) ==
    [o \in ObjIds |-> IF o \in Referenced(ud, store) THEN h[o] ELSE EmptyDict]

\* ------------------------------------------------------------ dispatching
\* main(): the handler that takes an update in conversation state st.  The
\* ConversationHandler comes
\* first; its entry points are tried only when no conversation is active,
\* then the state's handlers, then the fallbacks; what it leaves goes to the
\* four CommandHandlers registered after it.
StateHandler(st) ==
    CASE st = NAME -> "get_name"
      [] st = FUNCTION -> "get_function"
      [] st = COMPANY -> "get_company"
      [] st = LOCATION -> "get_location"
      [] st = HOURS_WORKED -> "get_hours"
      [] st = UPDATE_TEXT -> "get_update_text"
      [] st = PLANNING -> "get_planning"
      [] st = PHOTO -> "get_photo"

\* An update is a message: its text (empty: none) and its photo ("": none).
\* A command is a text that starts with "/"; the word after it names it.
TextUpdate(text) == [text |-> text, photo |-> ""]
PhotoUpdate(photo) == [text |-> Empty, photo |-> photo]
CommandUpdate(cmd) == [text |-> <<"/", cmd>>, photo |-> ""]

\* filters.TEXT, filters.COMMAND, filters.PHOTO
IsText(upd) == Len(upd.text) > 0
IsCommand(upd) == IsText(upd) /\ upd.text[1] = "/"
IsPhoto(upd) == upd.photo # ""
\* CommandHandler(cmd, ...)
IsCommandNamed(upd, cmd) == IsCommand(upd) /\ Len(upd.text) > 1 /\ upd.text[2] = cmd

\* every state taking texts and photos alike
AcceptsAnyMessage(st, upd) == IsPhoto(upd) \/ (IsText(upd) /\ ~IsCommand(upd))

\* the filter of the state's MessageHandler
Accepts(st, upd) ==
    IF st = PHOTO THEN IsPhoto(upd) ELSE IsText(upd) /\ ~IsCommand(upd)

Dispatch(st, upd) ==
    IF st = END /\ IsCommandNamed(upd, "update") THEN "start_update"
    ELSE IF st # END /\ Accepts(st, upd) THEN StateHandler(st)
    ELSE IF st # END /\ IsCommandNamed(upd, "cancel") THEN "cancel"
    ELSE IF IsCommandNamed(upd, "start") THEN "start"
    ELSE IF IsCommandNamed(upd, "help") THEN "help_command"
    ELSE IF IsCommandNamed(upd, "daily_report") THEN "daily_report"
    ELSE IF IsCommandNamed(upd, "weekly_report") THEN "weekly_report"
    ELSE "none"

Commands == {"update", "cancel", "start", "help", "daily_report", "weekly_report"}

\* ------------------------------------------------------------------- turns
NoPrompt == [type |-> "", blocks |-> << >>]
\* the record of a turn: the update, the handler that took it ("none": no
\* handler; "tick": no update, time passed), whether it raised, the messages
\* delivered, the calls to the model with the prompt and what the call gave
\* ("none": no call, "text", "error"), the media groups delivered, and what
\* get_file gave ("none": no call, "id", "error")
Turn(op, c, u, upd, raised, sent) ==
    [op |-> op, chat |-> c, user |-> u, upd |-> upd,
     raised |-> raised, sent |-> sent, llm |-> 0, gen |-> "none",
     prompt |-> NoPrompt, media |-> << >>, file |-> "none"]

NoHist == [ok |-> FALSE, chat |-> "c1", inputs |-> << >>]
\* hist after a turn of user u in chat c: an input of the session the
\* history follows, accepted by its handler, extends it; any other turn of
\* the user ends it
Extend(u, c, accepted, upd) ==
    [hist EXCEPT ![u] =
        IF @.ok /\ @.chat = c /\ accepted
        THEN [@ EXCEPT !.inputs = Append(@, upd)]
        ELSE NoHist]

Init ==
    /\ conv = [k \in Keys |-> END]
    /\ user_data = [u \in Users |-> NoObj]
    /\ heap = [o \in ObjIds |-> EmptyDict]
    /\ db = << >>
    /\ now = Noon
    /\ last = Turn("tick", "c1", "u1", TextUpdate(Empty), FALSE, << >>)
    /\ sid = [k \in Keys |-> 0]
    /\ nsess = 0
    /\ by = << >>
    /\ hist = [u \in Users |-> NoHist]

\* start_update: reply with the first prompt, return NAME.  delivered: whether
\* reply_text succeeds; when it raises the conversation is not entered.
start_update(c, u, upd, delivered) ==
    /\ Dispatch(conv[<<c, u>>], upd) = "start_update"
    /\ nsess < MaxSessions
    /\ IF delivered
       THEN /\ conv' = [conv EXCEPT ![<<c, u>>] = NAME]
            /\ nsess' = nsess + 1
            /\ sid' = [sid EXCEPT ![<<c, u>>] = nsess + 1]
            /\ hist' = [hist EXCEPT ![u] = [ok |-> TRUE, chat |-> c, inputs |-> << >>]]
            /\ last' = Turn("start_update", c, u, upd, FALSE, <<"ask_name">>)
       ELSE /\ UNCHANGED <<conv, nsess, sid>>
            /\ hist' = Extend(u, c, FALSE, upd)
            /\ last' = Turn("start_update", c, u, upd, TRUE, << >>)
    /\ UNCHANGED <<user_data, heap, db, now, by>>

\* get_name: user_data["update_data"] = {"name": text}, a new dict
get_name(c, u, upd, delivered) ==
    /\ Dispatch(conv[<<c, u>>], upd) = "get_name"
    /\ LET o == NewObj(u)
           ud == [user_data EXCEPT ![u] = o]
       IN /\ user_data' = ud
          /\ heap' = Collect([heap EXCEPT ![o] = DictSet(EmptyDict, "name", upd.text)], ud, db)
    /\ IF delivered
       THEN /\ conv' = [conv EXCEPT ![<<c, u>>] = FUNCTION]
            /\ last' = Turn("get_name", c, u, upd, FALSE, <<"ask_function">>)
       ELSE /\ UNCHANGED conv
            /\ last' = Turn("get_name", c, u, upd, TRUE, << >>)
    /\ hist' = Extend(u, c, delivered, upd)
    /\ UNCHANGED <<db, now, sid, nsess, by>>

\* The body shared by get_function, get_company, get_location,
\* get_update_text and get_planning:
\*   context.user_data["update_data"][field] = text; reply; return next
\* The subscript raises KeyError when user_data has no "update_data".
StoreText(op, c, u, field, upd, delivered, next, prompt) ==
    /\ Dispatch(conv[<<c, u>>], upd) = op
    /\ IF user_data[u] = NoObj
       THEN /\ UNCHANGED <<heap, conv>>
            /\ last' = Turn(op, c, u, upd, TRUE, << >>)
            /\ hist' = Extend(u, c, FALSE, upd)
       ELSE /\ heap' = [heap EXCEPT ![user_data[u]] = DictSet(@, field, upd.text)]
            /\ hist' = Extend(u, c, delivered, upd)
            /\ IF delivered
               THEN /\ conv' = [conv EXCEPT ![<<c, u>>] = next]
                    /\ last' = Turn(op, c, u, upd, FALSE, <<prompt>>)
               ELSE /\ UNCHANGED conv
                    /\ last' = Turn(op, c, u, upd, TRUE, << >>)
    /\ UNCHANGED <<user_data, db, now, sid, nsess, by>>

get_function(c, u, upd, delivered) ==
    StoreText("get_function", c, u, "function", upd, delivered, COMPANY, "ask_company")

\* get_company writing under the key of get_function
get_company_wrong_key(c, u, upd, delivered) ==
    StoreText("get_company", c, u, "function", upd, delivered, LOCATION, "ask_location")

get_company(c, u, upd, delivered) ==
    StoreText("get_company", c, u, "company", upd, delivered, LOCATION, "ask_location")

\* get_location returning the state after the next
get_location_skips_hours(c, u, upd, delivered) ==
    StoreText("get_location", c, u, "location", upd, delivered, UPDATE_TEXT, "ask_hours")

get_location(c, u, upd, delivered) ==
    StoreText("get_location", c, u, "location", upd, delivered, HOURS_WORKED, "ask_hours")

get_update_text(c, u, upd, delivered) ==
    StoreText("get_update_text", c, u, "update_text", upd, delivered, PLANNING, "ask_planning")

get_planning(c, u, upd, delivered) ==
    StoreText("get_planning", c, u, "planning", upd, delivered, PHOTO, "ask_photo")

\* get_hours: float(text.replace(',', '.')); on ValueError re-prompt and stay
get_hours(c, u, upd, delivered) ==
    /\ Dispatch(conv[<<c, u>>], upd) = "get_hours"
    /\ LET hours == ParseFloat(ReplaceComma(upd.text))
       IN IF ~hours.ok
          THEN /\ UNCHANGED <<heap, conv>>
               /\ hist' = IF delivered THEN hist ELSE Extend(u, c, FALSE, upd)
               /\ last' = Turn("get_hours", c, u, upd, ~delivered,
                               IF delivered THEN <<"reask_hours">> ELSE << >>)
          ELSE IF user_data[u] = NoObj
          THEN /\ UNCHANGED <<heap, conv>>
               /\ hist' = Extend(u, c, FALSE, upd)
               /\ last' = Turn("get_hours", c, u, upd, TRUE, << >>)
          ELSE /\ heap' = [heap EXCEPT ![user_data[u]] =
                              DictSet(@, "hours_worked", [num |-> hours.num, den |-> hours.den])]
               /\ hist' = Extend(u, c, delivered, upd)
               /\ IF delivered
                  THEN /\ conv' = [conv EXCEPT ![<<c, u>>] = UPDATE_TEXT]
                       /\ last' = Turn("get_hours", c, u, upd, FALSE, <<"ask_update_text">>)
                  ELSE /\ UNCHANGED conv
                       /\ last' = Turn("get_hours", c, u, upd, TRUE, << >>)
    /\ UNCHANGED <<user_data, db, now, sid, nsess, by>>

\* update.message.photo[-1].get_file(): the file id the transport resolves
\* the attachment to
FileId(photo) == <<"file", photo>>

\* a get_photo that stamps the date before it resolves the attachment
get_photo_stamps_first(c, u, upd, resolved, delivered) ==
    /\ Dispatch(conv[<<c, u>>], upd) = "get_photo"
    /\ IF user_data[u] = NoObj
       THEN /\ UNCHANGED <<heap, db, by, user_data, conv>>
            /\ hist' = Extend(u, c, FALSE, upd)
            /\ last' = Turn("get_photo", c, u, upd, TRUE, << >>)
       ELSE IF ~IsPhoto(upd) \/ ~resolved
       THEN /\ UNCHANGED <<db, by, user_data, conv>>
            /\ heap' = [heap EXCEPT ![user_data[u]] = DictSet(@, "date", IsoFormat(now))]
            /\ hist' = hist
            /\ last' = [Turn("get_photo", c, u, upd, TRUE, << >>)
                          EXCEPT !.file = IF IsPhoto(upd) THEN "error" ELSE "none"]
       ELSE /\ Len(db) < MaxStore
            /\ db' = Append(db, user_data[u])
            /\ by' = Append(by, sid[<<c, u>>])
            /\ heap' = [heap EXCEPT ![user_data[u]] =
                           DictSet(DictSet(@, "photo_id", FileId(upd.photo)),
                                   "date", IsoFormat(now))]
            /\ hist' = Extend(u, c, delivered, upd)
            /\ IF delivered
               THEN /\ user_data' = [user_data EXCEPT ![u] = NoObj]
                    /\ conv' = [conv EXCEPT ![<<c, u>>] = END]
                    /\ last' = [Turn("get_photo", c, u, upd, FALSE, <<"thanks">>)
                                  EXCEPT !.file = "id"]
               ELSE /\ UNCHANGED <<user_data, conv>>
                    /\ last' = [Turn("get_photo", c, u, upd, TRUE, << >>)
                                  EXCEPT !.file = "id"]
    /\ UNCHANGED <<now, sid, nsess>>

\* get_photo: resolve the attachment, write photo_id and date into the
\* user's dict, append that dict to db["updates"], thank, clear user_data,
\* end the conversation.  resolved: get_file() succeeds; delivered:
\* reply_text() succeeds.  photo[-1] raises IndexError on a message without
\* photo, the subscript KeyError without "update_data".  A photo that
\* get_file does not resolve is no input of the session: hist keeps it out.
get_photo(c, u, upd, resolved, delivered) ==
    /\ Dispatch(conv[<<c, u>>], upd) = "get_photo"
    /\ IF ~IsPhoto(upd) \/ ~resolved
       THEN /\ UNCHANGED <<heap, db, by, user_data, conv>>
            /\ hist' = IF IsPhoto(upd) THEN hist ELSE Extend(u, c, FALSE, upd)
            /\ last' = [Turn("get_photo", c, u, upd, TRUE, << >>)
                          EXCEPT !.file = IF IsPhoto(upd) THEN "error" ELSE "none"]
       ELSE IF user_data[u] = NoObj
       THEN /\ UNCHANGED <<heap, db, by, user_data, conv>>
            /\ hist' = Extend(u, c, FALSE, upd)
            /\ last' = [Turn("get_photo", c, u, upd, TRUE, << >>) EXCEPT !.file = "id"]
       ELSE /\ Len(db) < MaxStore
            /\ db' = Append(db, user_data[u])
            /\ by' = Append(by, sid[<<c, u>>])
            /\ heap' = [heap EXCEPT ![user_data[u]] =
                           DictSet(DictSet(@, "photo_id", FileId(upd.photo)),
                                   "date", IsoFormat(now))]
            /\ hist' = Extend(u, c, delivered, upd)
            /\ IF delivered
               THEN /\ user_data' = [user_data EXCEPT ![u] = NoObj]
                    /\ conv' = [conv EXCEPT ![<<c, u>>] = END]
                    /\ last' = [Turn("get_photo", c, u, upd, FALSE, <<"thanks">>)
                                  EXCEPT !.file = "id"]
               ELSE /\ UNCHANGED <<user_data, conv>>
                    /\ last' = [Turn("get_photo", c, u, upd, TRUE, << >>)
                                  EXCEPT !.file = "id"]
    /\ UNCHANGED <<now, sid, nsess>>

\* a cancel that leaves user_data in place
cancel_keeps_data(c, u, upd, delivered) ==
    /\ Dispatch(conv[<<c, u>>], upd) = "cancel"
    /\ IF delivered
       THEN /\ conv' = [conv EXCEPT ![<<c, u>>] = END]
            /\ last' = Turn("cancel", c, u, upd, FALSE, <<"cancelled">>)
       ELSE /\ UNCHANGED conv
            /\ last' = Turn("cancel", c, u, upd, TRUE, << >>)
    /\ hist' = Extend(u, c, FALSE, upd)
    /\ UNCHANGED <<user_data, heap, db, now, sid, nsess, by>>

\* cancel: clear user_data, acknowledge, end the conversation
cancel(c, u, upd, delivered) ==
    /\ Dispatch(conv[<<c, u>>], upd) = "cancel"
    /\ LET ud == [user_data EXCEPT ![u] = NoObj]
       IN /\ user_data' = ud
          /\ heap' = Collect(heap, ud, db)
    /\ IF delivered
       THEN /\ conv' = [conv EXCEPT ![<<c, u>>] = END]
            /\ last' = Turn("cancel", c, u, upd, FALSE, <<"cancelled">>)
       ELSE /\ UNCHANGED conv
            /\ last' = Turn("cancel", c, u, upd, TRUE, << >>)
    /\ hist' = Extend(u, c, FALSE, upd)
    /\ UNCHANGED <<db, now, sid, nsess, by>>

\* start: the welcome message
start(c, u, upd, delivered) ==
    /\ Dispatch(conv[<<c, u>>], upd) = "start"
    /\ last' = Turn("start", c, u, upd, ~delivered, IF delivered THEN <<"welcome">> ELSE << >>)
    /\ hist' = Extend(u, c, FALSE, upd)
    /\ UNCHANGED <<conv, user_data, heap, db, now, sid, nsess, by>>

\* help_command: calls start
help_command(c, u, upd, delivered) ==
    /\ Dispatch(conv[<<c, u>>], upd) = "help_command"
    /\ last' = Turn("help_command", c, u, upd, ~delivered,
                    IF delivered THEN <<"welcome">> ELSE << >>)
    /\ hist' = Extend(u, c, FALSE, upd)
    /\ UNCHANGED <<conv, user_data, heap, db, now, sid, nsess, by>>

\* an update no handler of main() takes: nothing runs
Unhandled(c, u, upd) ==
    /\ Dispatch(conv[<<c, u>>], upd) = "none"
    /\ last' = Turn("none", c, u, upd, FALSE, << >>)
    /\ hist' = Extend(u, c, FALSE, upd)
    /\ UNCHANGED <<conv, user_data, heap, db, now, sid, nsess, by>>

\* time passes between turns
Tick ==
    /\ \E t \in Instants : t > now /\ now' = t
    /\ last' = Turn("tick", last.chat, last.user, TextUpdate(Empty), FALSE, << >>)
    /\ UNCHANGED <<conv, user_data, heap, db, sid, nsess, by, hist>>

\* ---------------------------------------------------------------- reports
CaptionLimit == 1024
ChunkSize == 10
SevenDays == 7
MaxCalls == 5       \* transport calls of one report turn that may fail

NA == <<"N", "/", "A">>
\* d.get(k, default)
DictGet(d, k, default) == IF k \in DOMAIN d THEN d[k] ELSE default

Min(a, b) == IF a < b THEN a ELSE b

DigitChar(d) ==
    CASE d = 0 -> "0" [] d = 1 -> "1" [] d = 2 -> "2" [] d = 3 -> "3" [] d = 4 -> "4"
      [] d = 5 -> "5" [] d = 6 -> "6" [] d = 7 -> "7" [] d = 8 -> "8" [] d = 9 -> "9"

RECURSIVE NatDigits(_)
NatDigits(n) == IF n < 10 THEN <<DigitChar(n)>> ELSE Append(NatDigits(n \div 10), DigitChar(n % 10))

\* the digits of f written in w places, without trailing zeros
RECURSIVE FracDigits(_, _)
FracDigits(f, w) ==
    IF w = 0 \/ f = 0 THEN << >>
    ELSE LET p == Pow10(w - 1) IN <<DigitChar(f \div p)>> \o FracDigits(f % p, w - 1)

RECURSIVE Log10(_)
Log10(n) == IF n < 10 THEN 0 ELSE 1 + Log10(n \div 10)

\* str(float): "7.5", "-3.0"
FormatFloat(h) ==
    LET mag == IF h.num < 0 THEN 0 - h.num ELSE h.num
        frac == FracDigits(mag % h.den, Log10(h.den))
    IN (IF h.num < 0 THEN <<"-">> ELSE << >>) \o NatDigits(mag \div h.den) \o <<".">>
       \o (IF frac = << >> THEN <<"0">> ELSE frac)

\* report_type.lower()
Lower(report_type) == IF report_type = "Daily" THEN "daily" ELSE "weekly"

PromptBlock(i, u) ==
    [index |-> i,
     name |-> DictGet(u, "name", NA),
     function |-> DictGet(u, "function", NA),
     company |-> DictGet(u, "company", NA),
     location |-> DictGet(u, "location", NA),
     hours |-> IF "hours_worked" \in DOMAIN u THEN FormatFloat(u["hours_worked"]) ELSE NA,
     update_text |-> DictGet(u, "update_text", NA),
     planning |-> DictGet(u, "planning", NA),
     photo |-> DictGet(u, "photo_id", NA)]

\* build_prompt: the preamble names the report type, then one block per
\* update in order, then the fixed instructions
build_prompt(updates_data, report_type) ==
    [type |-> Lower(report_type),
     blocks |-> [i \in 1..Len(updates_data) |-> PromptBlock(i, updates_data[i])]]

\* a caption that is not cut
CaptionUncut(u) ==
    u["name"] \o <<" ", "(">> \o u["company"] \o <<")", " ", "-", " ">> \o u["update_text"]

\* f"{u['name']} ({u['company']}) - {u['update_text']}"[:1024]
Caption(u) ==
    LET full == u["name"] \o <<" ", "(">> \o u["company"] \o <<")", " ", "-", " ">>
                \o u["update_text"]
    IN SubSeq(full, 1, Min(CaptionLimit, Len(full)))

HasPhoto(u) == "photo_id" \in DOMAIN u

\* full groups only: what is left after the last full group is not sent
FullChunks(media_group) ==
    [j \in 1..(Len(media_group) \div ChunkSize) |->
        SubSeq(media_group, (j - 1) * ChunkSize + 1, j * ChunkSize)]

\* media_group[i:i+10] for i in range(0, len(media_group), 10)
Chunks(media_group) ==
    [j \in 1..((Len(media_group) + ChunkSize - 1) \div ChunkSize) |->
        SubSeq(media_group, (j - 1) * ChunkSize + 1, Min(j * ChunkSize, Len(media_group)))]

Outcome(raised, sent, llm, prompt, media) ==
    [raised |-> raised, sent |-> sent, llm |-> llm, prompt |-> prompt, media |-> media]

\* generate_and_send_report after the try block: the photos header, then
\* the captioned photos in groups of ten, or the no-photos reply.  sent:
\* the replies delivered so far; fails: the transport calls of this turn,
\* counted in order, that raise (4: the header, 5..: the groups, 5: the
\* no-photos reply)
send_photos(c, updates_data, prompt, fails, sent) ==
    LET with_photo == SelectSeq(updates_data, HasPhoto)
        key_error == \E i \in 1..Len(with_photo) :
            ~({"name", "company", "update_text"} \subseteq DOMAIN with_photo[i])
        media_group == [i \in 1..Len(with_photo) |->
            [media_id |-> with_photo[i]["photo_id"], caption |-> Caption(with_photo[i])]]
        chunks == Chunks(media_group)
        bad == {j \in 1..Len(chunks) : (4 + j) \in fails}
        sends == IF bad = {} THEN Len(chunks)
                 ELSE (CHOOSE j \in bad : \A i \in bad : j <= i) - 1
    IN IF Len(updates_data) = 0 THEN Outcome(FALSE, sent, 1, prompt, << >>)
       ELSE IF 4 \in fails THEN Outcome(TRUE, sent, 1, prompt, << >>)
       ELSE IF key_error THEN Outcome(TRUE, Append(sent, "photos_header"), 1, prompt, << >>)
       ELSE IF Len(media_group) > 0
            THEN Outcome(bad # {}, Append(sent, "photos_header"), 1, prompt,
                         [j \in 1..sends |-> [chat |-> c, media |-> chunks[j]]])
       ELSE IF 5 \in fails
            THEN Outcome(TRUE, Append(sent, "photos_header"), 1, prompt, << >>)
       ELSE Outcome(FALSE, Append(sent, "photos_header") \o <<"no_photos">>, 1, prompt, << >>)

\* an except block that does not return: the photos follow the apology
generate_without_return(c, updates_data, report_type, llm_ok, fails) ==
    LET prompt == build_prompt(updates_data, report_type)
        Except(n, sent) ==
            IF (n + 1) \in fails THEN Outcome(TRUE, sent, 1, prompt, << >>)
            ELSE send_photos(c, updates_data, prompt, fails,
                             Append(sent, "generation_failed"))
    IN IF 1 \in fails THEN Outcome(TRUE, << >>, 0, NoPrompt, << >>)
       ELSE IF ~llm_ok THEN Except(1, <<"generating">>)
       ELSE IF 2 \in fails THEN Except(2, <<"generating">>)
       ELSE IF 3 \in fails THEN Except(3, <<"generating", "report_header">>)
       ELSE send_photos(c, updates_data, prompt, fails,
                        <<"generating", "report_header", "report_body">>)

\* an except block that asks the model a second time before it apologises
generate_with_retry(c, updates_data, report_type, llm_ok, fails) ==
    LET prompt == build_prompt(updates_data, report_type)
        Except(n, sent) ==
            IF (n + 1) \in fails THEN Outcome(TRUE, sent, 2, prompt, << >>)
            ELSE Outcome(FALSE, Append(sent, "generation_failed"), 2, prompt, << >>)
    IN IF 1 \in fails THEN Outcome(TRUE, << >>, 0, NoPrompt, << >>)
       ELSE IF ~llm_ok THEN Except(1, <<"generating">>)
       ELSE IF 2 \in fails THEN Except(2, <<"generating">>)
       ELSE IF 3 \in fails THEN Except(3, <<"generating", "report_header">>)
       ELSE send_photos(c, updates_data, prompt, fails,
                        <<"generating", "report_header", "report_body">>)

\* generate_and_send_report in chat c.  llm_ok: generate_content returns a
\* text; fails: the transport calls of this turn, counted in order, that
\* raise (1: the generating reply, 2: the report header, 3: the report body,
\* n + 1: the apology after a failure at n).  A failure inside the try block
\* is answered by the except block, which returns.
generate_and_send_report(c, updates_data, report_type, llm_ok, fails) ==
    LET prompt == build_prompt(updates_data, report_type)
        Except(n, sent) ==
            IF (n + 1) \in fails THEN Outcome(TRUE, sent, 1, prompt, << >>)
            ELSE Outcome(FALSE, Append(sent, "generation_failed"), 1, prompt, << >>)
    IN IF 1 \in fails THEN Outcome(TRUE, << >>, 0, NoPrompt, << >>)
       ELSE IF ~llm_ok THEN Except(1, <<"generating">>)
       ELSE IF 2 \in fails THEN Except(2, <<"generating">>)
       ELSE IF 3 \in fails THEN Except(3, <<"generating", "report_header">>)
       ELSE send_photos(c, updates_data, prompt, fails,
                        <<"generating", "report_header", "report_body">>)

\* a daily filter on the last 24 hours
InLastDay(u) == FromIsoFormat(u["date"]) > now - MinutesPerDay

\* the list comprehensions of daily_report and weekly_report
InToday(u) == DateOf(FromIsoFormat(u["date"])) = DateOf(now)
InLastWeek(u) == FromIsoFormat(u["date"]) >= now - SevenDays * MinutesPerDay

\* a report command that generates whatever the filtered list holds
ReportUnguarded(op, c, u, upd, updates_data, report_type, empty_msg, llm_ok, fails) ==
    /\ Dispatch(conv[<<c, u>>], upd) = op
    /\ \E out \in {generate_and_send_report(c, updates_data, report_type, llm_ok, fails)} :
          last' = [Turn(op, c, u, upd, out.raised, out.sent)
                     EXCEPT !.llm = out.llm, !.prompt = out.prompt, !.media = out.media,
                            !.gen = IF out.llm = 0 THEN "none"
                                    ELSE IF llm_ok THEN "text" ELSE "error"]
    /\ hist' = Extend(u, c, FALSE, upd)
    /\ UNCHANGED <<conv, user_data, heap, db, now, sid, nsess, by>>

\* a report command that also reports the sender's unfinished record
ReportWithPartial(op, c, u, upd, updates_data, report_type, empty_msg, llm_ok, fails) ==
    /\ Dispatch(conv[<<c, u>>], upd) = op
    /\ \E all \in {IF user_data[u] = NoObj THEN updates_data
                    ELSE Append(updates_data, heap[user_data[u]])} :
       \E out \in {IF Len(all) = 0
                   THEN Outcome(1 \in fails, IF 1 \in fails THEN << >> ELSE <<empty_msg>>,
                                0, NoPrompt, << >>)
                   ELSE generate_and_send_report(c, all, report_type, llm_ok, fails)} :
          last' = [Turn(op, c, u, upd, out.raised, out.sent)
                     EXCEPT !.llm = out.llm, !.prompt = out.prompt, !.media = out.media,
                            !.gen = IF out.llm = 0 THEN "none"
                                    ELSE IF llm_ok THEN "text" ELSE "error"]
    /\ hist' = Extend(u, c, FALSE, upd)
    /\ UNCHANGED <<conv, user_data, heap, db, now, sid, nsess, by>>

\* the turn of a report command: reply that there is nothing to report when
\* the filtered list is empty, else generate_and_send_report
Report(op, c, u, upd, updates_data, report_type, empty_msg, llm_ok, fails) ==
    /\ Dispatch(conv[<<c, u>>], upd) = op
    /\ \E out \in {IF Len(updates_data) = 0
                   THEN Outcome(1 \in fails, IF 1 \in fails THEN << >> ELSE <<empty_msg>>,
                                0, NoPrompt, << >>)
                   ELSE generate_and_send_report(c, updates_data, report_type, llm_ok, fails)} :
          last' = [Turn(op, c, u, upd, out.raised, out.sent)
                     EXCEPT !.llm = out.llm, !.prompt = out.prompt, !.media = out.media,
                            !.gen = IF out.llm = 0 THEN "none"
                                    ELSE IF llm_ok THEN "text" ELSE "error"]
    /\ hist' = Extend(u, c, FALSE, upd)
    /\ UNCHANGED <<conv, user_data, heap, db, now, sid, nsess, by>>

daily_report(c, u, upd, llm_ok, fails) ==
    Report("daily_report", c, u, upd, SelectSeq(Records, InToday), "Daily",
           "no_updates_today", llm_ok, fails)

weekly_report(c, u, upd, llm_ok, fails) ==
    Report("weekly_report", c, u, upd, SelectSeq(Records, InLastWeek), "Weekly",
           "no_updates_week", llm_ok, fails)

\* the failures explored: no call, one call, or two calls in a row
Faults == {{}} \cup {{i} : i \in 1..MaxCalls} \cup {{i, i + 1} : i \in 1..MaxCalls}

\* ---------------------------------------------------------- specifications
\* the updates user u may send in chat c: a text answering the current
\* prompt, a photo, a command, a message with neither text nor photo
Updates(c, u) ==
    {TextUpdate(t) : t \in TextsFor(u, conv[<<c, u>>])}
    \cup {PhotoUpdate(p) : p \in Photos}
    \cup {CommandUpdate(cmd) : cmd \in Commands}
    \cup {TextUpdate(Empty)}

\* One conversation: the handlers of the collection and the updates that
\* main() gives to start, to help_command or to no handler.
Next ==
    \/ \E k \in OneKey, delivered \in BOOLEAN : \E upd \in Updates(k[1], k[2]) :
          start_update(k[1], k[2], upd, delivered)
    \/ \E k \in OneKey, delivered \in BOOLEAN : \E upd \in Updates(k[1], k[2]) :
          get_name(k[1], k[2], upd, delivered)
    \/ \E k \in OneKey, delivered \in BOOLEAN : \E upd \in Updates(k[1], k[2]) :
          get_function(k[1], k[2], upd, delivered)
    \/ \E k \in OneKey, delivered \in BOOLEAN : \E upd \in Updates(k[1], k[2]) :
          get_company(k[1], k[2], upd, delivered)
    \/ \E k \in OneKey, delivered \in BOOLEAN : \E upd \in Updates(k[1], k[2]) :
          get_location(k[1], k[2], upd, delivered)
    \/ \E k \in OneKey, delivered \in BOOLEAN : \E upd \in Updates(k[1], k[2]) :
          get_hours(k[1], k[2], upd, delivered)
    \/ \E k \in OneKey, delivered \in BOOLEAN : \E upd \in Updates(k[1], k[2]) :
          get_update_text(k[1], k[2], upd, delivered)
    \/ \E k \in OneKey, delivered \in BOOLEAN : \E upd \in Updates(k[1], k[2]) :
          get_planning(k[1], k[2], upd, delivered)
    \/ \E k \in OneKey, resolved \in BOOLEAN, delivered \in BOOLEAN :
          \E upd \in Updates(k[1], k[2]) : get_photo(k[1], k[2], upd, resolved, delivered)
    \/ \E k \in OneKey, delivered \in BOOLEAN : \E upd \in Updates(k[1], k[2]) :
          cancel(k[1], k[2], upd, delivered)
    \/ \E k \in OneKey, delivered \in BOOLEAN : \E upd \in Updates(k[1], k[2]) :
          start(k[1], k[2], upd, delivered)
    \/ \E k \in OneKey, delivered \in BOOLEAN : \E upd \in Updates(k[1], k[2]) :
          help_command(k[1], k[2], upd, delivered)
    \/ \E k \in OneKey : \E upd \in Updates(k[1], k[2]) : Unhandled(k[1], k[2], upd)

Spec == Init /\ [][Next]_vars

\* The store filled by the collection (its prompts all delivered; the
\* thanks of get_photo may fail), the clock and the two report commands.
NextReport ==
    \/ \E k \in OneKey : \E upd \in Updates(k[1], k[2]) : start_update(k[1], k[2], upd, TRUE)
    \/ \E k \in OneKey : \E upd \in Updates(k[1], k[2]) : get_name(k[1], k[2], upd, TRUE)
    \/ \E k \in OneKey : \E upd \in Updates(k[1], k[2]) : get_function(k[1], k[2], upd, TRUE)
    \/ \E k \in OneKey : \E upd \in Updates(k[1], k[2]) : get_company(k[1], k[2], upd, TRUE)
    \/ \E k \in OneKey : \E upd \in Updates(k[1], k[2]) : get_location(k[1], k[2], upd, TRUE)
    \/ \E k \in OneKey : \E upd \in Updates(k[1], k[2]) : get_hours(k[1], k[2], upd, TRUE)
    \/ \E k \in OneKey : \E upd \in Updates(k[1], k[2]) : get_update_text(k[1], k[2], upd, TRUE)
    \/ \E k \in OneKey : \E upd \in Updates(k[1], k[2]) : get_planning(k[1], k[2], upd, TRUE)
    \/ \E k \in OneKey, delivered \in BOOLEAN : \E upd \in Updates(k[1], k[2]) :
          get_photo(k[1], k[2], upd, TRUE, delivered)
    \/ \E k \in OneKey : \E upd \in Updates(k[1], k[2]) : cancel(k[1], k[2], upd, TRUE)
    \/ \E k \in OneKey, llm_ok \in BOOLEAN, fails \in Faults : \E upd \in Updates(k[1], k[2]) :
          daily_report(k[1], k[2], upd, llm_ok, fails)
    \/ \E k \in OneKey, llm_ok \in BOOLEAN, fails \in Faults : \E upd \in Updates(k[1], k[2]) :
          weekly_report(k[1], k[2], upd, llm_ok, fails)
    \/ Tick

SpecReport == Init /\ [][NextReport]_vars

\* Three conversations (one user in two chats, a second user), interleaved:
\* the handlers of the collection, their prompts all delivered; the thanks
\* of get_photo may fail.
NextShared ==
    \/ \E k \in Keys : \E upd \in Updates(k[1], k[2]) : start_update(k[1], k[2], upd, TRUE)
    \/ \E k \in Keys : \E upd \in Updates(k[1], k[2]) : get_name(k[1], k[2], upd, TRUE)
    \/ \E k \in Keys : \E upd \in Updates(k[1], k[2]) : get_function(k[1], k[2], upd, TRUE)
    \/ \E k \in Keys : \E upd \in Updates(k[1], k[2]) : get_company(k[1], k[2], upd, TRUE)
    \/ \E k \in Keys : \E upd \in Updates(k[1], k[2]) : get_location(k[1], k[2], upd, TRUE)
    \/ \E k \in Keys : \E upd \in Updates(k[1], k[2]) : get_hours(k[1], k[2], upd, TRUE)
    \/ \E k \in Keys : \E upd \in Updates(k[1], k[2]) : get_update_text(k[1], k[2], upd, TRUE)
    \/ \E k \in Keys : \E upd \in Updates(k[1], k[2]) : get_planning(k[1], k[2], upd, TRUE)
    \/ \E k \in Keys, delivered \in BOOLEAN : \E upd \in Updates(k[1], k[2]) :
          get_photo(k[1], k[2], upd, TRUE, delivered)
    \/ \E k \in Keys : \E upd \in Updates(k[1], k[2]) : cancel(k[1], k[2], upd, TRUE)

SpecShared == Init /\ [][NextShared]_vars

\* Two users in one chat, interleaved: the handlers of the collection, their
\* prompts all delivered (the thanks of get_photo may fail), and the two
\* report commands, their replies all delivered, the model answering or not.
NextUsers ==
    \/ \E k \in TwoUsers : \E upd \in Updates(k[1], k[2]) : start_update(k[1], k[2], upd, TRUE)
    \/ \E k \in TwoUsers : \E upd \in Updates(k[1], k[2]) : get_name(k[1], k[2], upd, TRUE)
    \/ \E k \in TwoUsers : \E upd \in Updates(k[1], k[2]) : get_function(k[1], k[2], upd, TRUE)
    \/ \E k \in TwoUsers : \E upd \in Updates(k[1], k[2]) : get_company(k[1], k[2], upd, TRUE)
    \/ \E k \in TwoUsers : \E upd \in Updates(k[1], k[2]) : get_location(k[1], k[2], upd, TRUE)
    \/ \E k \in TwoUsers : \E upd \in Updates(k[1], k[2]) : get_hours(k[1], k[2], upd, TRUE)
    \/ \E k \in TwoUsers : \E upd \in Updates(k[1], k[2]) : get_update_text(k[1], k[2], upd, TRUE)
    \/ \E k \in TwoUsers : \E upd \in Updates(k[1], k[2]) : get_planning(k[1], k[2], upd, TRUE)
    \/ \E k \in TwoUsers, delivered \in BOOLEAN : \E upd \in Updates(k[1], k[2]) :
          get_photo(k[1], k[2], upd, TRUE, delivered)
    \/ \E k \in TwoUsers : \E upd \in Updates(k[1], k[2]) : cancel(k[1], k[2], upd, TRUE)
    \/ \E k \in TwoUsers, llm_ok \in BOOLEAN : \E upd \in Updates(k[1], k[2]) :
          daily_report(k[1], k[2], upd, llm_ok, {})
    \/ \E k \in TwoUsers, llm_ok \in BOOLEAN : \E upd \in Updates(k[1], k[2]) :
          weekly_report(k[1], k[2], upd, llm_ok, {})

SpecUsers == Init /\ [][NextUsers]_vars


\* A store filled by earlier sessions: n complete records, appended in the
\* order of their dates, and a report asked at noon of day 10.
MaxBatch == 23      \* records in the store of the report specification
BatchNow == 10 * MinutesPerDay + Noon
\* the dates of the records, oldest first: 8 days ago, a minute more than 7
\* days ago, 7 days ago, 6 days ago, yesterday 23:59, today 00:01, now
BatchInstants ==
    <<BatchNow - 8 * MinutesPerDay, BatchNow - 7 * MinutesPerDay - 1,
      BatchNow - 7 * MinutesPerDay, BatchNow - 6 * MinutesPerDay,
      10 * MinutesPerDay - 1, 10 * MinutesPerDay + 1, BatchNow>>
\* a description of the given length
LongText(len) == [i \in 1..len |-> "x"]
\* the i-th record of the store; its date is the (i + skip)-th instant, the
\* last one from there on
BatchRecord(i, skip) ==
    [name |-> IF i % 2 = 1 THEN Jan ELSE Piet,
     function |-> Electrician,
     company |-> Acme,
     location |-> WestWing,
     hours_worked |-> [num |-> 75, den |-> 10],
     update_text |-> CASE i = 1 -> LongText(2000)
                       [] i = 2 -> LongText(1011)
                       [] i = 3 -> LongText(1012)
                       [] OTHER -> Wiring,
     planning |-> Blocked,
     photo_id |-> FileId(i),
     date |-> IsoFormat(BatchInstants[Min(Len(BatchInstants), i + skip)])]

InitBatch ==
    \E n \in 0..MaxBatch, skip \in 0..(Len(BatchInstants) - 1) :
        /\ conv = [k \in Keys |-> END]
        /\ user_data = [u \in Users |-> NoObj]
        /\ heap = [o \in 1..n |-> BatchRecord(o, skip)]
        /\ db = [i \in 1..n |-> i]
        /\ now = BatchNow
        /\ last = Turn("tick", "c1", "u1", TextUpdate(Empty), FALSE, << >>)
        /\ sid = [k \in Keys |-> 0]
        /\ nsess = n
        /\ by = [i \in 1..n |-> i]
        /\ hist = [u \in Users |-> NoHist]

NextBatch ==
    \/ \E k \in OneKey, llm_ok \in BOOLEAN, fails \in Faults : \E upd \in Updates(k[1], k[2]) :
          daily_report(k[1], k[2], upd, llm_ok, fails)
    \/ \E k \in OneKey, llm_ok \in BOOLEAN, fails \in Faults : \E upd \in Updates(k[1], k[2]) :
          weekly_report(k[1], k[2], upd, llm_ok, fails)

SpecBatch == InitBatch /\ [][NextBatch]_vars

\* ------------------------------------------------------------------ claims
\* the records db["updates"] holds that the current session of k appended
CommittedBy(k) == {i \in 1..Len(db) : by[i] = sid[k]}

\* the number each explored hours text denotes, as [num, den]
HoursTyped(text) ==
    CASE text = SevenCommaFive -> [num |-> 75, den |-> 10]
      [] text = MinusThree -> [num |-> 0 - 3, den |-> 1]

\* C1: after /update, while the user's turns are n correctly typed inputs in
\* order (each taken by its handler and answered), the session is in state n
\* and has appended nothing for n < 8; after the eighth (the photo) the
\* session has ended and has appended exactly one record, whose six text
\* fields are the six texts verbatim, whose hours are the number the fifth
\* text denotes and whose photo_id is the file id of the attachment.
C1_EightInputsOneRecord ==
    \A k \in OneKey :
        LET h == hist[k[2]]
            n == Len(h.inputs)
        IN (h.ok /\ h.chat = k[1]) =>
            /\ n <= 8
            /\ n < 8 => conv[k] = n /\ CommittedBy(k) = {}
            /\ n = 8 =>
                /\ conv[k] = END
                /\ Cardinality(CommittedBy(k)) = 1
                /\ \A i \in CommittedBy(k) :
                      LET r == heap[db[i]]
                      IN /\ DOMAIN r = AllFields
                         /\ r["name"] = h.inputs[1].text
                         /\ r["function"] = h.inputs[2].text
                         /\ r["company"] = h.inputs[3].text
                         /\ r["location"] = h.inputs[4].text
                         /\ r["hours_worked"] = HoursTyped(h.inputs[5].text)
                         /\ r["update_text"] = h.inputs[6].text
                         /\ r["planning"] = h.inputs[7].text
                         /\ r["photo_id"] = FileId(h.inputs[8].photo)

\* a session completed by eight inputs, the fifth being "7,5", in a store
\* that already held a record
C1_Witness ==
    \E k \in OneKey :
        /\ hist[k[2]].ok /\ Len(hist[k[2]].inputs) = 8
        /\ hist[k[2]].inputs[5].text = SevenCommaFive
        /\ conv[k] = END /\ Len(db) = 2

\* C2: after /cancel was handled (and acknowledged) in a conversation, the
\* conversation is over, the user's partial record is gone and the store
\* holds no record of the cancelled session.
C2_CancelCommitsNothing ==
    \A k \in OneKey :
        (last.op = "cancel" /\ ~last.raised /\ last.chat = k[1] /\ last.user = k[2]) =>
            /\ conv[k] = END
            /\ user_data[k[2]] = NoObj
            /\ CommittedBy(k) = {}

\* C3: a text in AwaitingHours that is no number leaves the conversation
\* state, the partial record (where the inputs so far were correctly typed,
\* without hours) and the store as they were and is answered by the
\* re-prompt alone, however often it happens; "7,5", once answered, is
\* stored as 7.5 and moves the conversation to UPDATE_TEXT.
C3_HoursRetry ==
    [][\A k \in OneKey :
          (last'.op = "get_hours" /\ last'.chat = k[1] /\ last'.user = k[2]) =>
             /\ conv[k] = HOURS_WORKED
             /\ last'.upd.text = Abc =>
                   /\ conv'[k] = HOURS_WORKED
                   /\ UNCHANGED <<heap, user_data, db>>
                   /\ last'.sent \in {<<"reask_hours">>, << >>}
                   /\ ~last'.raised => last'.sent = <<"reask_hours">>
                   /\ hist[k[2]].ok =>
                         /\ user_data[k[2]] # NoObj
                         /\ "hours_worked" \notin DOMAIN heap'[user_data'[k[2]]]
                         /\ ~last'.raised => hist' = hist
             /\ (last'.upd.text = SevenCommaFive /\ ~last'.raised) =>
                   /\ conv'[k] = UPDATE_TEXT
                   /\ heap'[user_data'[k[2]]]["hours_worked"] = [num |-> 75, den |-> 10]
                   /\ last'.sent = <<"ask_update_text">>
                   /\ db' = db]_vars

\* "abc" was answered by the re-prompt in a session whose first four inputs
\* were taken: still AwaitingHours, hours unset
C3_Witness ==
    \E k \in OneKey :
        /\ last.op = "get_hours" /\ last.upd.text = Abc /\ last.sent = <<"reask_hours">>
        /\ hist[k[2]].ok /\ Len(hist[k[2]].inputs) = 4
        /\ conv[k] = HOURS_WORKED
        /\ "hours_worked" \notin DOMAIN heap[user_data[k[2]]]

\* C4: every stored record has hours >= 0, and so has every partial record.
C4_HoursNonNegative ==
    /\ \A i \in 1..Len(db) :
          "hours_worked" \in DOMAIN heap[db[i]] => heap[db[i]]["hours_worked"].num >= 0
    /\ \A u \in Users :
          (user_data[u] # NoObj /\ "hours_worked" \in DOMAIN heap[user_data[u]]) =>
              heap[user_data[u]]["hours_worked"].num >= 0

\* C5: every stored record has all nine fields, and its six text fields
\* are non-empty.
C5_RecordsComplete ==
    \A i \in 1..Len(db) :
        LET r == heap[db[i]]
        IN /\ DOMAIN r = AllFields
           /\ \A f \in TextFields : Len(r[f]) > 0

\* C6: a step leaves every stored record as it was and the store as it was
\* or longer by one record, and no session appends twice.
C6_AppendOnly ==
    [][/\ Len(db') \in {Len(db), Len(db) + 1}
       /\ \A i \in 1..Len(db) : db'[i] = db[i] /\ heap'[db'[i]] = heap[db[i]]
       /\ \A i, j \in 1..Len(by') : by'[i] = by'[j] => i = j]_vars

\* C7: once /update was taken without an error, whatever the state of the
\* conversation before, the conversation is in NAME and the user has no
\* partial record.
C7_LastStartWins ==
    \A k \in OneKey :
        (/\ last.op # "tick" /\ last.chat = k[1] /\ last.user = k[2]
         /\ last.upd = CommandUpdate("update") /\ ~last.raised) =>
            /\ conv[k] = NAME
            /\ user_data[k[2]] = NoObj

\* C8: no user has two conversations in progress.
C8_OneSessionPerUser ==
    \A u \in Users : Cardinality({k \in Keys : k[2] = u /\ conv[k] # END}) <= 1

TextStates == {NAME, FUNCTION, COMPANY, LOCATION, HOURS_WORKED, UPDATE_TEXT, PLANNING}

\* C9: in PHOTO a message without photo is taken by no handler of the
\* conversation (a text by no handler at all) unless it is /cancel, and
\* changes neither the state nor the partial record nor the store; the
\* conversation goes from PHOTO to END, other than by /cancel,
\* only by get_photo taking a photo and appending its record; in a text
\* state a photo is taken by no handler and changes nothing.
C9_PhotoRequired ==
    [][\A k \in OneKey :
          (last'.chat = k[1] /\ last'.user = k[2] /\ last'.op # "tick") =>
             /\ (conv[k] = PHOTO /\ ~IsPhoto(last'.upd) /\ last'.op # "cancel") =>
                   /\ last'.op \in {"none", "start", "help_command"}
                   /\ IsCommand(last'.upd) \/ last'.op = "none"
                   /\ conv'[k] = PHOTO
                   /\ UNCHANGED <<heap, user_data, db>>
             /\ (conv[k] = PHOTO /\ conv'[k] = END /\ last'.op # "cancel") =>
                   /\ last'.op = "get_photo"
                   /\ IsPhoto(last'.upd)
                   /\ Len(db') = Len(db) + 1
                   /\ heap'[db'[Len(db')]]["photo_id"] = FileId(last'.upd.photo)
             /\ (conv[k] \in TextStates /\ IsPhoto(last'.upd)) =>
                   /\ last'.op = "none"
                   /\ UNCHANGED <<conv, heap, user_data, db>>]_vars

\* a text typed in PHOTO was taken by no handler: still PHOTO, nothing stored
C9_Witness ==
    \E k \in OneKey :
        /\ conv[k] = PHOTO /\ last.op = "none" /\ last.upd = TextUpdate(Jan)
        /\ user_data[k[2]] # NoObj /\ db = << >>

\* the stored records whose date is the day of now / within seven days of now
TodaysRecords == {i \in 1..Len(db) : heap[db[i]]["date"][1] = now \div (24 * 60)}
WeeksRecords ==
    {i \in 1..Len(db) :
        LET d == heap[db[i]]["date"]
        IN (d[1] * 24 + d[2]) * 60 + d[3] >= now - 7 * 24 * 60}
WindowOf(op) == IF op = "daily_report" THEN TodaysRecords ELSE WeeksRecords

\* C10: a report command whose window holds no stored record makes no call
\* to the model and sends no media, and its answer, when delivered, is the
\* nothing-to-report message alone; the model is called only when the
\* window holds a record.
C10_EmptyWindow ==
    last.op \in {"daily_report", "weekly_report"} =>
        /\ WindowOf(last.op) = {} =>
              /\ last.llm = 0
              /\ last.media = << >>
              /\ last.sent \in {<< >>, <<IF last.op = "daily_report"
                                        THEN "no_updates_today" ELSE "no_updates_week">>}
              /\ ~last.raised => last.sent # << >>
        /\ last.llm > 0 => WindowOf(last.op) # {}
        /\ last.llm <= 1

\* /weekly_report eight days after the only record was stored
C10_Witness ==
    /\ last.op = "weekly_report" /\ db # << >> /\ WeeksRecords = {}
    /\ last.sent = <<"no_updates_week">> /\ last.llm = 0

ReportOps == {"daily_report", "weekly_report"}
\* the replies a report turn may have delivered when the generation failed
FailedReplies == {<<"generating">>, <<"generating", "generation_failed">>,
                  <<"generating", "report_header">>,
                  <<"generating", "report_header", "generation_failed">>}

\* C11: a report turn whose call to the model gave an error leaves the
\* store and its records as they were, delivers no report header or body,
\* no photos header and no media group, and, unless the apology itself is
\* not delivered, answers with the generating notice and the generation
\* failed message alone.
C11_GenerationFailure ==
    [][(last'.op \in ReportOps /\ last'.gen = "error") =>
          /\ UNCHANGED <<db, heap, user_data, conv>>
          /\ last'.llm = 1
          /\ last'.media = << >>
          /\ last'.sent \in {<<"generating">>, <<"generating", "generation_failed">>}
          /\ ~last'.raised => last'.sent = <<"generating", "generation_failed">>]_vars

\* the model failed on a non-empty daily window and the apology was delivered
C11_Witness ==
    /\ last.op = "daily_report" /\ last.gen = "error" /\ ~last.raised
    /\ last.sent = <<"generating", "generation_failed">>
    /\ TodaysRecords # {} /\ last.prompt.blocks # << >>

\* C16: a report turn calls the model at most once; with a record in the
\* window it calls it exactly once as soon as its generating notice is
\* delivered; it never delivers both the report body and the generation
\* failed message, and media groups only after the report body; a turn
\* that ends without an exception delivered either the report header and
\* body followed by the photos part, or the generation failed message and
\* nothing after it.
C16_OneCallTwoOutcomes ==
    last.op \in ReportOps =>
        LET body == \E i \in 1..Len(last.sent) : last.sent[i] = "report_body"
            failed == \E i \in 1..Len(last.sent) : last.sent[i] = "generation_failed"
        IN /\ last.llm \in {0, 1}
           /\ (WindowOf(last.op) # {} /\ last.sent # << >>) => last.llm = 1
           /\ last.llm = 0 => ~body /\ ~failed
           /\ ~(body /\ failed)
           /\ last.media # << >> => body
           /\ failed => last.sent[Len(last.sent)] = "generation_failed"
           /\ (WindowOf(last.op) # {} /\ ~last.raised) =>
                 \/ /\ last.sent = <<"generating", "report_header", "report_body",
                                     "photos_header">>
                    /\ last.media # << >> /\ last.gen = "text"
                 \/ /\ last.sent \in FailedReplies /\ failed
                    /\ last.media = << >>

\* the report body and a media group were delivered after one call
C16_Witness ==
    /\ last.op = "weekly_report" /\ last.llm = 1 /\ ~last.raised
    /\ last.sent = <<"generating", "report_header", "report_body", "photos_header">>
    /\ Len(last.media) = 1

\* the members of a set of store positions, in the order of the store
RECURSIVE InOrder(_, _)
InOrder(S, n) ==
    IF n = 0 THEN << >>
    ELSE IF n \in S THEN Append(InOrder(S, n - 1), n) ELSE InOrder(S, n - 1)
WindowSeq(op) == InOrder(WindowOf(op), Len(db))

\* the items of the media groups delivered, in the order of delivery
RECURSIVE Delivered(_)
Delivered(groups) ==
    IF Len(groups) = 0 THEN << >>
    ELSE Delivered(SubSeq(groups, 1, Len(groups) - 1)) \o groups[Len(groups)].media

\* C20: a report command sent in the middle of the sender's collection (or
\* at any other time) leaves the conversation state, the partial record and
\* the store as they were; the prompt holds one block per stored record of
\* the window, in store order, with that record's fields, and every media
\* item delivered is the photo of a stored record of the window: nothing
\* of a record that is not in the store is reported.
C20_ReportMidCollection ==
    [][\A k \in OneKey :
          (last'.op \in ReportOps /\ last'.chat = k[1] /\ last'.user = k[2]) =>
             LET w == WindowSeq(last'.op)
                 blocks == last'.prompt.blocks
                 items == Delivered(last'.media)
             IN /\ UNCHANGED <<conv, user_data, heap, db, now>>
                /\ last'.llm = 0 => blocks = << >>
                /\ last'.llm > 0 =>
                      /\ Len(blocks) = Len(w)
                      /\ \A i \in 1..Len(w) :
                            LET r == heap[db[w[i]]]
                            IN /\ blocks[i].index = i
                               /\ blocks[i].name = r["name"]
                               /\ blocks[i].function = r["function"]
                               /\ blocks[i].company = r["company"]
                               /\ blocks[i].location = r["location"]
                               /\ blocks[i].update_text = r["update_text"]
                               /\ blocks[i].planning = r["planning"]
                               /\ blocks[i].photo = r["photo_id"]
                /\ Len(items) <= Len(w)
                /\ \A i \in 1..Len(items) : items[i].media_id = heap[db[w[i]]]["photo_id"]]_vars

\* a daily report generated while the sender's second collection, its
\* record not stored, is in progress
C20_Witness ==
    \E k \in OneKey :
        /\ last.op = "daily_report" /\ last.llm = 1 /\ ~last.raised
        /\ conv[k] \in TextStates \cup {PHOTO}
        /\ user_data[k[2]] # NoObj
        /\ \A i \in 1..Len(db) : db[i] # user_data[k[2]]
        /\ Len(last.prompt.blocks) = 1 /\ Len(last.media) = 1

\* C13: a conversation that ends, by get_photo or by cancel, leaves the user
\* without partial record; while no conversation is active the user has
\* none, every text and every photo is taken by no handler, and every
\* update other than /update leaves the conversation state, the partial
\* record and the store as they were.
C13_DiscardedAfterEnd ==
    [][\A k \in OneKey :
          (last'.chat = k[1] /\ last'.user = k[2] /\ last'.op # "tick") =>
             /\ (conv[k] # END /\ conv'[k] = END) =>
                   /\ last'.op \in {"get_photo", "cancel"}
                   /\ user_data'[k[2]] = NoObj
             /\ conv[k] = END => user_data[k[2]] = NoObj
             /\ (conv[k] = END /\ ~IsCommandNamed(last'.upd, "update")) =>
                   /\ last'.op \in {"none", "start", "help_command"}
                   /\ ~IsCommand(last'.upd) => last'.op = "none"
                   /\ UNCHANGED <<conv, user_data, heap, db>>]_vars

\* a photo sent after the session completed was taken by no handler
C13_Witness ==
    \E k \in OneKey :
        /\ conv[k] = END /\ last.op = "none" /\ last.upd = PhotoUpdate("p1")
        /\ Len(db) = 1 /\ user_data[k[2]] = NoObj /\ by = <<sid[k]>>

\* the update_data keys written on leaving each state
WrittenIn(st) ==
    CASE st = NAME -> {"name"}
      [] st = FUNCTION -> {"function"}
      [] st = COMPANY -> {"company"}
      [] st = LOCATION -> {"location"}
      [] st = HOURS_WORKED -> {"hours_worked"}
      [] st = UPDATE_TEXT -> {"update_text"}
      [] st = PLANNING -> {"planning"}
      [] st = PHOTO -> {"photo_id", "date"}

\* C18: a step that changes the state of a conversation is /update entering
\* NAME from no conversation, /cancel ending it, or the handler of the
\* state it leaves moving to the next state of the order (PHOTO to END):
\* that step writes the keys of the state it leaves, with the text typed
\* (for the hours a number), and leaves the other keys of the partial
\* record as they were; NAME starts the record, PHOTO appends it.
C18_LinearOrder ==
    [][\A k \in OneKey :
          LET s == conv[k]
              t == conv'[k]
              old == IF s = NAME \/ user_data[k[2]] = NoObj THEN EmptyDict
                     ELSE heap[user_data[k[2]]]
              new == IF s = PHOTO THEN heap'[user_data[k[2]]] ELSE heap'[user_data'[k[2]]]
          IN t # s =>
               \/ /\ s = END /\ t = NAME /\ last'.op = "start_update"
                  /\ UNCHANGED <<user_data, heap, db>>
               \/ /\ s # END /\ t = END /\ last'.op = "cancel" /\ db' = db
               \/ /\ s \in TextStates \cup {PHOTO}
                  /\ t = (IF s = PHOTO THEN END ELSE s + 1)
                  /\ last'.op = StateHandler(s)
                  /\ s # NAME => user_data[k[2]] # NoObj
                  /\ s \in TextStates \ {NAME} => user_data'[k[2]] = user_data[k[2]]
                  /\ DOMAIN new = (DOMAIN old) \cup WrittenIn(s)
                  /\ \A f \in (DOMAIN old) \ WrittenIn(s) : new[f] = old[f]
                  /\ s \in TextStates \ {HOURS_WORKED} =>
                        \A f \in WrittenIn(s) : new[f] = last'.upd.text
                  /\ s = HOURS_WORKED => new["hours_worked"] = HoursTyped(last'.upd.text)
                  /\ IF s = PHOTO THEN db' = Append(db, user_data[k[2]]) ELSE db' = db]_vars

\* the conversation went through every state and ended by get_photo
C18_Witness ==
    \E k \in OneKey :
        /\ conv[k] = END /\ last.op = "get_photo" /\ ~last.raised
        /\ db # << >> /\ DOMAIN heap[db[Len(db)]] = AllFields

\* C19: a get_photo turn in which get_file raises appends nothing, sends
\* nothing, leaves the partial record as it was (after seven inputs taken
\* in order: exactly the seven collected keys, without photo_id and date)
\* and leaves the conversation in PHOTO with its session intact, so that
\* the next photo is its eighth input.
C19_ResolveFailure ==
    [][\A k \in OneKey :
          (/\ last'.op = "get_photo" /\ last'.file = "error"
           /\ last'.chat = k[1] /\ last'.user = k[2]) =>
             /\ last'.raised /\ last'.sent = << >>
             /\ conv[k] = PHOTO /\ conv'[k] = PHOTO
             /\ UNCHANGED <<db, by, heap, user_data, hist>>
             /\ hist[k[2]].ok =>
                   /\ Len(hist'[k[2]].inputs) = 7
                   /\ user_data'[k[2]] # NoObj
                   /\ DOMAIN heap'[user_data'[k[2]]] = AllFields \ {"photo_id", "date"}]_vars

\* get_file raised on the photo sent after seven inputs: still PHOTO,
\* seven keys, nothing stored by the session
C19_Witness ==
    \E k \in OneKey :
        /\ last.op = "get_photo" /\ last.file = "error" /\ conv[k] = PHOTO
        /\ hist[k[2]].ok /\ Len(hist[k[2]].inputs) = 7
        /\ Cardinality(DOMAIN heap[user_data[k[2]]]) = 7
        /\ CommittedBy(k) = {}

\* C14: a turn of one user (a rejected hours text, a cancel, a commit, a
\* report whose generation fails, any other) leaves the conversation state
\* of every other user, that user's partial record and its contents as
\* they were.
C14_OtherUsersUntouched ==
    [][\A k \in TwoUsers :
          (last'.user # k[2] /\ last'.op # "tick") =>
             /\ conv'[k] = conv[k]
             /\ user_data'[k[2]] = user_data[k[2]]
             /\ user_data[k[2]] # NoObj =>
                   heap'[user_data[k[2]]] = heap[user_data[k[2]]]
             /\ hist'[k[2]] = hist[k[2]]]_vars

\* u2's daily report failed in the model while u1 is in PHOTO with its
\* seven fields
C14_Witness ==
    /\ last.user = "u2" /\ last.op = "daily_report" /\ last.gen = "error"
    /\ conv[<<"c2", "u1">>] = PHOTO
    /\ user_data["u1"] # NoObj
    /\ Cardinality(DOMAIN heap[user_data["u1"]]) = 7

\* C12: when the generation succeeded and the photos header was delivered,
\* for N records in the window (N up to the whole store, 23) the media
\* groups delivered are ceil(N / 10), each of 1 to 10 items, sent to the
\* chat of the request, all but the last of 10; together they hold N items,
\* and in order of delivery the items are the photos of the window's records
\* in store order, each with the caption of its record.  When a send raises,
\* the groups delivered before it are full groups in that same order.
C12_MediaChunks ==
    (last.op \in ReportOps /\ Len(last.sent) = 4) =>
        LET w == WindowSeq(last.op)
            N == Len(w)
            groups == last.media
            items == Delivered(groups)
            ceil == CHOOSE c \in 0..N : c * 10 >= N /\ (c - 1) * 10 < N
        IN /\ last.sent[4] = "photos_header"
           /\ N >= 1
           /\ \A j \in 1..Len(groups) :
                 /\ Len(groups[j].media) \in 1..10
                 /\ groups[j].chat = last.chat
                 /\ j < Len(groups) => Len(groups[j].media) = 10
           /\ Len(items) <= N
           /\ \A i \in 1..Len(items) :
                 /\ items[i].media_id = heap[db[w[i]]]["photo_id"]
                 /\ items[i].caption = Caption(heap[db[w[i]]])
           /\ IF last.raised
              THEN Len(groups) < ceil /\ Len(items) = 10 * Len(groups)
              ELSE Len(groups) = ceil /\ Len(items) = N

\* 23 photos delivered in groups of 10, 10 and 3
C12_Witness ==
    /\ last.op = "daily_report" /\ ~last.raised /\ Len(db) = 23
    /\ Len(last.media) = 3
    /\ Len(last.media[1].media) = 10 /\ Len(last.media[2].media) = 10
    /\ Len(last.media[3].media) = 3
    /\ last.media[3].media[3].media_id = FileId(23)

\* the photo ids named in the prompt: the records the window selected
Selected == {last.prompt.blocks[i].photo : i \in 1..Len(last.prompt.blocks)}

\* C15: the records a report turn hands to the model are, in store order,
\* exactly the stored records dated on the day of now (daily) or dated not
\* before now minus 7 days (weekly), and the turn answers that there is
\* nothing to report exactly when there is none; a record of today 00:01
\* is in the daily selection and one of yesterday 23:59 is not, a record
\* of exactly 6 days ago is in the weekly selection and one of 8 days ago
\* is not.
C15_Windows ==
    (last.op \in ReportOps /\ last.sent # << >>) =>
        LET w == WindowSeq(last.op)
            today == now \div (24 * 60)
            minute == now % (24 * 60)
        IN /\ last.llm = 0 <=> w = << >>
           /\ last.llm = 1 =>
                 /\ Len(last.prompt.blocks) = Len(w)
                 /\ \A i \in 1..Len(w) :
                       last.prompt.blocks[i].photo = heap[db[w[i]]]["photo_id"]
                 /\ \A i \in 1..Len(db) :
                       LET r == heap[db[i]]
                       IN /\ (last.op = "daily_report" /\ r["date"] = <<today, 0, 1>>) =>
                                r["photo_id"] \in Selected
                          /\ (last.op = "daily_report" /\ r["date"] = <<today - 1, 23, 59>>) =>
                                r["photo_id"] \notin Selected
                          /\ (/\ last.op = "weekly_report"
                              /\ r["date"] = <<today - 6, minute \div 60, minute % 60>>) =>
                                r["photo_id"] \in Selected
                          /\ (/\ last.op = "weekly_report"
                              /\ r["date"] = <<today - 8, minute \div 60, minute % 60>>) =>
                                r["photo_id"] \notin Selected

\* a daily report over a store that holds a record of yesterday 23:59 and
\* one of today 00:01: the second is selected, the first is not
C15_Witness ==
    /\ last.op = "daily_report" /\ last.llm = 1
    /\ \E i, j \in 1..Len(db) :
          /\ heap[db[i]]["date"] = <<9, 23, 59>>
          /\ heap[db[j]]["date"] = <<10, 0, 1>>
          /\ heap[db[i]]["photo_id"] \notin Selected
          /\ heap[db[j]]["photo_id"] \in Selected

\* "Jan (Acme) - "
JanAcmePrefix == <<"J", "a", "n", " ", "(", "A", "c", "m", "e", ")", " ", "-", " ">>

\* C17: every caption delivered is the first min(1024, length) characters
\* of name, " (", company, ") - ", description of the record whose photo it
\* captions, so none is longer than 1024; for Jan, Acme and a description
\* of 2000 characters it is 1024 characters long and starts with
\* "Jan (Acme) - ".
C17_Caption ==
    LET items == Delivered(last.media)
    IN \A i \in 1..Len(items) :
          \A o \in DOMAIN heap :
              ("photo_id" \in DOMAIN heap[o] /\ heap[o]["photo_id"] = items[i].media_id) =>
                  LET r == heap[o]
                      full == r["name"] \o <<" ", "(">> \o r["company"]
                              \o <<")", " ", "-", " ">> \o r["update_text"]
                      len == IF Len(full) < 1024 THEN Len(full) ELSE 1024
                      cap == items[i].caption
                  IN /\ Len(cap) = len
                     /\ Len(cap) <= 1024
                     /\ \A j \in 1..len : cap[j] = full[j]
                     /\ (r["name"] = Jan /\ r["company"] = Acme
                         /\ Len(r["update_text"]) = 2000) =>
                            /\ Len(cap) = 1024
                            /\ SubSeq(cap, 1, 13) = JanAcmePrefix

\* captions delivered for descriptions of 2000 characters (cut to 1024),
\* of 1011 (1024, not cut) and of 6
C17_Witness ==
    LET items == Delivered(last.media)
    IN /\ Len(items) >= 4
       /\ Len(heap[db[1]]["update_text"]) = 2000 /\ heap[db[1]]["name"] = Jan
       /\ items[1].media_id = heap[db[1]]["photo_id"]
       /\ Len(items[1].caption) = 1024
       /\ SubSeq(items[1].caption, 1, 13) = JanAcmePrefix
       /\ Len(items[2].caption) = 1024
       /\ Len(items[4].caption) < 1024

====
